---- MODULE Spec2Model ----
(***************************************************************************)
(* A model of the bskt repository: the CRE workflow handler onHTTPTrigger  *)
(* (bank-stablecoin-por-ace-ccip-workflow/main.ts) with its three stages,  *)
(* and the on-chain MintingConsumerWithACE / StablecoinERC20 contracts.    *)
(*                                                                         *)
(* Representation of values                                                *)
(*  - an address string is a record [acct, form]: acct names the 20-byte   *)
(*    value, form its spelling ("lower", "checksum"); a string that is no  *)
(*    address has form "invalid".  getAddress keeps acct and rewrites the  *)
(*    spelling, or throws.                                                 *)
(*  - a JS number is [nan, centi]: NaN, or the decimal centi / 100.        *)
(*  - an error message is the set of the marker substrings it contains;    *)
(*    the empty set is the empty (falsy) string.                           *)
(*  - a string that is encoded to bytes is the sequence of the UTF-8       *)
(*    widths of its UTF-16 code units.                                     *)
(***************************************************************************)
EXTENDS Integers, Sequences, FiniteSets, TLC

\* config.decimals of the workflow configuration (10 ** decimals is the scale)
Decimals == 1

\* the width of a bytes32 field, and of padEnd / slice in stringToBytes32
Bytes32Len == 32

\* the instruction type written into every mint report
INSTRUCTION_MINT == 1

\* the instruction type the consumer reads as a redeem (burn)
INSTRUCTION_REDEEM == 2

\* 500000.00, the mock reserve, in hundredths
MockTotalReserveCenti == 50000000

RECURSIVE Pow10(_)
Pow10(n) == IF n = 0 THEN 1 ELSE 10 * Pow10(n - 1)

RECURSIVE SumSeq(_)
SumSeq(s) == IF s = <<>> THEN 0 ELSE Head(s) + SumSeq(Tail(s))

----------------------------------------------------------------------------
\* Addresses

Addr(a, f) == [acct |-> a, form |-> f]

NoAddr == Addr("none", "missing")

\* the strings the model feeds in as addresses
AddrStrings ==
  { Addr("A", "lower"), Addr("C", "checksum"), Addr("junk", "invalid") }

\* viem isAddress(address, {strict: false}), the test getAddress applies
IsAddress(a) == a.form \in {"lower", "checksum"}

\* viem getAddress on a valid address: the checksummed spelling of the same value
GetAddress(a) == Addr(a.acct, "checksum")

----------------------------------------------------------------------------
\* Numbers

Num(c) == [nan |-> FALSE, centi |-> c]

NaN == [nan |-> TRUE, centi |-> 0]

\* the amount strings the model feeds in
AmountStrings == {"100000", "500000", "600000", "0.05", "0", "-1", "abc"}

\* parseFloat on those strings
ParseFloat(s) ==
  CASE s = "100000" -> Num(10000000)
    [] s = "500000" -> Num(50000000)
    [] s = "600000" -> Num(60000000)
    [] s = "0.05"   -> Num(5)
    [] s = "0"      -> Num(0)
    [] s = "-1"     -> Num(-100)
    [] OTHER        -> NaN

\* x * (10 ** decimals), in hundredths
Scale(x, decimals) == IF x.nan THEN NaN ELSE Num(x.centi * Pow10(decimals))

\* BigInt(x) is defined for integral numbers only; it throws a RangeError otherwise
IsIntegral(x) == ~x.nan /\ x.centi % 100 = 0

BigIntOf(x) == x.centi \div 100

\* Math.floor
Floor(x) == IF x.nan THEN NaN ELSE Num((x.centi \div 100) * 100)

----------------------------------------------------------------------------
\* bankReference strings and stringToBytes32

Repeat(w, n) == [i \in 1..n |-> w]

\* the strings the model feeds in: ASCII, one with a two-byte character,
\* and one of 33 ASCII characters
BankRefs == { <<1, 1, 1>>, <<1, 2, 1>>, Repeat(1, Bytes32Len + 1) }

\* str.padEnd(32, '\0').slice(0, 32): 32 UTF-16 code units
PadSlice(str) ==
  LET padded == IF Len(str) >= Bytes32Len THEN str
                ELSE str \o Repeat(1, Bytes32Len - Len(str))
  IN SubSeq(padded, 1, Bytes32Len)

\* Buffer.from(bytes32): the number of bytes of the hex string that results
StringToBytes32Size(str) == SumSeq(PadSlice(str))

----------------------------------------------------------------------------
\* The inbound instruction (HTTPPayload.input)

\* an optional crossChain object; a field named in "missing" is absent from the JSON
CrossChain(present, enabled, chain, benef) ==
  [present |-> present, enabled |-> enabled, destinationChain |-> chain,
   beneficiary |-> benef]

NoCrossChain == CrossChain(FALSE, FALSE, "", NoAddr)

TransactionIds == {"BSKT-1", "BSKT-2"}

DestinationChains == {"avalanche-fuji", "base-sepolia"}

CrossChainBeneficiaries ==
  { Addr("B", "checksum"), Addr("A", "lower"), Addr("junk", "invalid") }

CrossChains ==
  {NoCrossChain} \cup
  { CrossChain(TRUE, e, c, b) :
      e \in BOOLEAN, c \in DestinationChains, b \in CrossChainBeneficiaries }

Body(txid, account, amount, bankRef, cc, missing) ==
  [transactionId |-> txid, beneficiary |-> account, amount |-> amount,
   bankReference |-> bankRef, crossChain |-> cc, missing |-> missing]

WellFormedBodies ==
  { Body(t, a, m, r, cc, {}) :
      t \in TransactionIds, a \in AddrStrings, m \in AmountStrings,
      r \in BankRefs, cc \in CrossChains }

\* JSON documents that lack a field
IncompleteBodies ==
  { Body("BSKT-1", Addr("A", "checksum"), "100000", <<1, 1, 1>>, cc, {f}) :
      cc \in { NoCrossChain,
               CrossChain(TRUE, TRUE, "avalanche-fuji", Addr("B", "checksum")) },
      f \in { "messageType", "transactionId", "beneficiary.account", "amount",
              "currency", "bankReference",
              "crossChain.enabled", "crossChain.destinationChain",
              "crossChain.beneficiary" } }

\* payload.input: absent or empty, text that is no JSON, or a JSON document
Inputs ==
  { [kind |-> "empty", body |-> Body("", NoAddr, "", <<>>, NoCrossChain, {})],
    [kind |-> "text", body |-> Body("", NoAddr, "", <<>>, NoCrossChain, {})] }
  \cup { [kind |-> "json", body |-> b] : b \in WellFormedBodies \cup IncompleteBodies }

\* a schema whose crossChain object asks for none of its fields
PayloadSchemaOk_OptionalCrossChainFields(body) ==
  body.missing \cap
    {"messageType", "transactionId", "beneficiary.account", "amount",
     "currency", "bankReference"} = {}

\* payloadSchema.parse: every required string is there; the fields of crossChain
\* are required whenever the object is
PayloadSchemaOk(body) ==
  /\ body.missing \cap
       {"messageType", "transactionId", "beneficiary.account", "amount",
        "currency", "bankReference"} = {}
  /\ body.crossChain.present =>
       body.missing \cap {"crossChain.enabled", "crossChain.destinationChain",
                          "crossChain.beneficiary"} = {}

----------------------------------------------------------------------------
\* The workflow configuration

Config(mock) ==
  [porMock |-> mock, decimals |-> Decimals,
   mintingConsumerAddress |-> Addr("M", "checksum"),
   ccipConsumerAddress |-> Addr("C", "lower"),
   fujiChainSelector |-> "avalanche-fuji"]

Configs == { Config(m) : m \in BOOLEAN }

----------------------------------------------------------------------------
\* What the external capabilities answer

\* the reserve source: a number, a document without totalReserve, or no answer
PorAnswers ==
  { [failed |-> FALSE, totalReserve |-> n] :
      n \in { Num(10000000), Num(50000050), NaN } }
  \cup { [failed |-> TRUE, totalReserve |-> NaN] }

TxStatuses == {"SUCCESS", "REVERTED", "FATAL"}

ErrorMessages ==
  { {}, {"other"}, {"PolicyRunRejected"}, {"blacklisted"}, {"ACE REJECTED"} }

TxHashes == {"absent", "0xaa", "0xbb"}

\* evmClient.writeReport(...).result(): a reply, or a throw
Reply(threw, status, message, hash) ==
  [threw |-> threw, txStatus |-> status, errorMessage |-> message, txHash |-> hash]

WriteReplies ==
  { Reply(FALSE, "SUCCESS", m, h) : m \in ErrorMessages, h \in TxHashes }
  \cup { Reply(FALSE, s, m, "absent") : s \in TxStatuses \ {"SUCCESS"}, m \in ErrorMessages }
  \cup { Reply(TRUE, "FATAL", {}, "absent") }

\* bytesToHex(resp.txHash || new Uint8Array(32))
TxHashHex(h) == IF h = "absent" THEN "0x00" ELSE h

----------------------------------------------------------------------------
\* The state of one run of the workflow

VARIABLES
  cfg,          \* runtime.config
  pc,           \* where onHTTPTrigger stands: "idle", "por", "mint", "ccip", "done"
  input,        \* payload.input
  amountWei,    \* the scaled mint amount
  reserve,      \* the reserve snapshot the validator compared, once it has one
  mintTxHash,   \* what mintWithACE returned
  outcome,      \* what onHTTPTrigger returned or threw
  stages,       \* the stages invoked so far, in order
  reports       \* the signed reports handed to writeReport so far, in order

wfVars == <<cfg, pc, input, amountWei, reserve, mintTxHash, outcome, stages, reports>>

\* The state of the deployed contracts
VARIABLES
  scOwner,      \* StablecoinERC20.owner()
  isMinter,     \* the accounts with isMinter[account] = true
  isBurner,     \* the accounts with isBurner[account] = true
  balances,     \* ERC20 balances
  blacklist,    \* the accounts the PolicyEngine's blacklist policy rejects
  consumerCfg,  \* what MintingConsumerWithACE.initialize stored in the proxy
  lastCall      \* the last external call: what was called, by whom, what it did

chVars == <<scOwner, isMinter, isBurner, balances, blacklist, consumerCfg, lastCall>>

\* The basket registry of the backend
VARIABLES
  baskets,      \* data/baskets.json as loadBaskets reads it: symbol -> BasketConfig
  pubResp       \* the last publish-basket request and the answer it got

regVars == <<baskets, pubResp>>

\* One request to POST /mint
VARIABLES
  apiKey,       \* process.env.API_KEY
  apiReq,       \* the request: its x-api-key header and its body
  apiPc,        \* "idle", "sim" (awaiting the CRE simulation), "done"
  handled,      \* apiKeyAuth called next(): the /mint handler was entered
  apiResp       \* the HTTP answer

apiVars == <<apiKey, apiReq, apiPc, handled, apiResp>>

\* Concurrent runs of runCRESimulation
VARIABLES
  clock,        \* Date.now(), in milliseconds
  files,        \* the workflow directory: path -> the request whose payload it holds
  procs         \* per request: where its simulation is, its payload path, what it read

simVars == <<clock, files, procs>>

beVars == <<regVars, apiVars, simVars>>

vars == <<wfVars, chVars, beVars>>

parsedPayload == input.body

beneficiary == parsedPayload.beneficiary

\* a test that takes the presence of crossChain for its being enabled
hasCrossChain_IgnoresEnabled == parsedPayload.crossChain.present

\* parsedPayload.crossChain?.enabled === true
hasCrossChain == parsedPayload.crossChain.present /\ parsedPayload.crossChain.enabled

\* a mint that always goes to the beneficiary
mintRecipient_AlwaysBeneficiary == beneficiary

\* the mint destination: the CCIP consumer when a transfer follows
mintRecipient == IF hasCrossChain THEN cfg.ccipConsumerAddress ELSE beneficiary

NoReserve == [known |-> FALSE, wei |-> 0]

NoOutcome ==
  [how |-> "none", error |-> "", fields |-> {}, transactionId |-> "",
   beneficiary |-> NoAddr, mintTransaction |-> "absent",
   ccipTransaction |-> "absent", message |-> {}]

\* an error that leaves onHTTPTrigger (rethrown at the outer catch)
Thrown(name) == [NoOutcome EXCEPT !.how = "thrown", !.error = name]

\* a failure object returned by onHTTPTrigger
Failure(error, message, txid, fields) ==
  [NoOutcome EXCEPT !.how = "returned", !.error = error, !.message = message,
                    !.transactionId = txid, !.fields = fields]

----------------------------------------------------------------------------
\* validateProofOfReserve

\* the snapshot: the mock constant for a file:// URL, the fetched answer otherwise
ReserveData(config, answer) ==
  IF config.porMock THEN [failed |-> FALSE, totalReserve |-> Num(MockTotalReserveCenti)]
  ELSE answer

\* Math.floor(reserveData.totalReserve * (10 ** config.decimals))
ReservesFloat(data, decimals) == Floor(Scale(data.totalReserve, decimals))

\* a validator that never compares the reserves with the mint amount
ValidateProofOfReserveThrows_NoComparison(data, decimals, mintAmount) ==
  \/ data.failed
  \/ ~IsIntegral(ReservesFloat(data, decimals))

\* a validator that asks for reserves strictly above the mint amount
ValidateProofOfReserveThrows_RejectsEquality(data, decimals, mintAmount) ==
  \/ data.failed
  \/ ~IsIntegral(ReservesFloat(data, decimals))
  \/ BigIntOf(ReservesFloat(data, decimals)) <= mintAmount

\* TRUE when the function throws: the fetch failed, BigInt(NaN), or reserves < mint
ValidateProofOfReserveThrows(data, decimals, mintAmount) ==
  \/ data.failed
  \/ ~IsIntegral(ReservesFloat(data, decimals))
  \/ BigIntOf(ReservesFloat(data, decimals)) < mintAmount

----------------------------------------------------------------------------
\* mintWithACE and transferWithACE

\* errorMsg.includes('PolicyRunRejected') || errorMsg.includes('blacklisted')
IsPolicyRejection(msg) == "PolicyRunRejected" \in msg \/ "blacklisted" \in msg

AceRejected == {"ACE REJECTED", "blacklisted"}

\* resp.errorMessage || txStatus: with no error message the status stands in for
\* it, and carries none of the markers
ErrorMsg(resp) == IF resp.errorMessage # {} THEN resp.errorMessage ELSE {"status"}

StageOk(hash) == [threw |-> FALSE, message |-> {}, txHash |-> hash]

StageThrew(msg) == [threw |-> TRUE, message |-> msg, txHash |-> "absent"]

\* lines 228-255: the classification of the reply to the mint report
MintOutcome(resp) ==
  IF resp.threw THEN StageThrew({"capability"})
  ELSE IF resp.txStatus # "SUCCESS" THEN
    IF IsPolicyRejection(ErrorMsg(resp)) THEN StageThrew(AceRejected)
    ELSE StageThrew(ErrorMsg(resp) \cup {"Failed to mint"})
  ELSE IF resp.errorMessage # {} /\ IsPolicyRejection(resp.errorMessage)
    THEN StageThrew(AceRejected)
  ELSE StageOk(TxHashHex(resp.txHash))

\* lines 322-341: the classification of the reply to the CCIP report
TransferOutcome(resp) ==
  IF resp.threw THEN StageThrew({"capability"})
  ELSE IF resp.txStatus # "SUCCESS" THEN
    IF IsPolicyRejection(ErrorMsg(resp)) THEN StageThrew(AceRejected)
    ELSE StageThrew(ErrorMsg(resp) \cup {"Failed to initiate CCIP transfer"})
  ELSE StageOk(TxHashHex(resp.txHash))

\* lines 176-180: getAddress of both addresses; TRUE when one of them throws
MintPrepareThrows(checked, recipient) == ~IsAddress(checked) \/ ~IsAddress(recipient)

\* lines 194-197: the encoded mint report; encodeAbiParameters throws when the
\* uint256 value is negative or the bytes32 value is not 32 bytes long
MintEncodeThrows(amount, bankRef) ==
  amount < 0 \/ StringToBytes32Size(bankRef) # Bytes32Len

MintReport(config, recipient, amount, bankRef) ==
  [kind |-> "mint", receiver |-> config.mintingConsumerAddress,
   instructionType |-> INSTRUCTION_MINT, account |-> GetAddress(recipient),
   amount |-> amount, bankRef |-> PadSlice(bankRef)]

\* lines 278-279
TransferPrepareThrows(sender, benef) == ~IsAddress(sender) \/ ~IsAddress(benef)

\* lines 285-291: the same two encodings in the CCIP report
TransferEncodeThrows(amount, bankRef) ==
  amount < 0 \/ StringToBytes32Size(bankRef) # Bytes32Len

\* a CCIP report that names the end beneficiary as the sender too
TransferReport_SenderIsBeneficiary(config, sender, benef, amount, bankRef) ==
  [kind |-> "ccip", receiver |-> config.ccipConsumerAddress,
   destinationChainSelector |-> config.fujiChainSelector,
   sender |-> GetAddress(benef), beneficiary |-> GetAddress(benef),
   amount |-> amount, bankRef |-> PadSlice(bankRef)]

\* a CCIP report with sender and beneficiary in each other's place
TransferReport_SwappedParties(config, sender, benef, amount, bankRef) ==
  [kind |-> "ccip", receiver |-> config.ccipConsumerAddress,
   destinationChainSelector |-> config.fujiChainSelector,
   sender |-> GetAddress(benef), beneficiary |-> GetAddress(sender),
   amount |-> amount, bankRef |-> PadSlice(bankRef)]

TransferReport(config, sender, benef, amount, bankRef) ==
  [kind |-> "ccip", receiver |-> config.ccipConsumerAddress,
   destinationChainSelector |-> config.fujiChainSelector,
   sender |-> GetAddress(sender), beneficiary |-> GetAddress(benef),
   amount |-> amount, bankRef |-> PadSlice(bankRef)]

\* a mint stage that submits its report again when the first reply is no success
MintWithACE_Resubmit(config, checked, recipient, amount, bankRef, resp) ==
  IF MintPrepareThrows(checked, recipient)
    THEN [res |-> StageThrew({"InvalidAddress"}), sent |-> <<>>]
  ELSE IF MintEncodeThrows(amount, bankRef)
    THEN [res |-> StageThrew({"AbiEncoding"}), sent |-> <<>>]
  ELSE [res |-> MintOutcome(resp),
        sent |-> IF MintOutcome(resp).threw
                   THEN <<MintReport(config, recipient, amount, bankRef),
                          MintReport(config, recipient, amount, bankRef)>>
                   ELSE <<MintReport(config, recipient, amount, bankRef)>>]

\* lines 164-256: what mintWithACE does for a reply: its result, and the
\* reports it handed to writeReport
MintWithACE(config, checked, recipient, amount, bankRef, resp) ==
  IF MintPrepareThrows(checked, recipient)
    THEN [res |-> StageThrew({"InvalidAddress"}), sent |-> <<>>]
  ELSE IF MintEncodeThrows(amount, bankRef)
    THEN [res |-> StageThrew({"AbiEncoding"}), sent |-> <<>>]
  ELSE [res |-> MintOutcome(resp),
        sent |-> <<MintReport(config, recipient, amount, bankRef)>>]

\* a transfer stage that undoes the mint with a redeem report when the CCIP
\* report is not accepted
TransferWithACE_Compensate(config, sender, benef, amount, bankRef, resp) ==
  IF TransferPrepareThrows(sender, benef)
    THEN [res |-> StageThrew({"InvalidAddress"}), sent |-> <<>>]
  ELSE IF TransferEncodeThrows(amount, bankRef)
    THEN [res |-> StageThrew({"AbiEncoding"}), sent |-> <<>>]
  ELSE [res |-> TransferOutcome(resp),
        sent |-> IF TransferOutcome(resp).threw
                   THEN <<TransferReport(config, sender, benef, amount, bankRef),
                          [MintReport(config, sender, amount, bankRef)
                             EXCEPT !.instructionType = INSTRUCTION_REDEEM]>>
                   ELSE <<TransferReport(config, sender, benef, amount, bankRef)>>]

\* lines 266-342
TransferWithACE(config, sender, benef, amount, bankRef, resp) ==
  IF TransferPrepareThrows(sender, benef)
    THEN [res |-> StageThrew({"InvalidAddress"}), sent |-> <<>>]
  ELSE IF TransferEncodeThrows(amount, bankRef)
    THEN [res |-> StageThrew({"AbiEncoding"}), sent |-> <<>>]
  ELSE [res |-> TransferOutcome(resp),
        sent |-> <<TransferReport(config, sender, benef, amount, bankRef)>>]

----------------------------------------------------------------------------
\* onHTTPTrigger

PorFailureFields == {"success", "error", "message", "transactionId"}

MintFailureFields == {"success", "error", "message", "beneficiary", "transactionId"}

TransferFailureFields ==
  {"success", "error", "message", "mintTransaction", "beneficiary", "transactionId"}

ResultFields ==
  {"reportDelivered", "transactionId", "beneficiary", "amount", "currency",
   "mintTransaction", "message", "etherscanMint", "verificationNote"}

CcipFields == {"ccipTransaction", "etherscanCCIP", "ccipExplorer"}

\* lines 433-439
MintErrorCode(msg) ==
  IF "ACE REJECTED" \in msg THEN "ACE_POLICY_REJECTED" ELSE "MINT_FAILED"

\* lines 467-474
TransferErrorCode(msg) ==
  IF "ACE REJECTED" \in msg THEN "ACE_POLICY_REJECTED_CCIP" ELSE "CCIP_FAILED"

\* lines 487-513: the result object; ccipTx is "absent" for the null ccipTxHash
Result(payload, mintTx, ccipTx) ==
  [NoOutcome EXCEPT
     !.how = "returned",
     !.transactionId = payload.transactionId,
     !.beneficiary = payload.beneficiary,
     !.mintTransaction = mintTx,
     !.ccipTransaction = ccipTx,
     !.fields = IF ccipTx # "absent" THEN ResultFields \cup CcipFields
                ELSE ResultFields]

\* a reserve rejection that does not say which instruction it answers
PorFailure_NoTransactionId(payload, msg) ==
  Failure("POR_INSUFFICIENT_RESERVES", msg, "", PorFailureFields \ {"transactionId"})

\* lines 396-401
PorFailure(payload, msg) ==
  Failure("POR_INSUFFICIENT_RESERVES", msg, payload.transactionId, PorFailureFields)

\* a mint catch that throws the error on
MintFailure_Rethrown(payload, msg) == Thrown("Error")

\* lines 433-439
MintFailure(payload, msg) ==
  [Failure(MintErrorCode(msg), msg, payload.transactionId, MintFailureFields)
     EXCEPT !.beneficiary = payload.beneficiary]

\* a transfer failure that forgets the mint that went before it
TransferFailure_NoMintReference(payload, msg, mintTx) ==
  [Failure(TransferErrorCode(msg), msg, payload.transactionId,
           TransferFailureFields \ {"mintTransaction"})
     EXCEPT !.beneficiary = payload.crossChain.beneficiary]

\* lines 467-474
TransferFailure(payload, msg, mintTx) ==
  [Failure(TransferErrorCode(msg), msg, payload.transactionId, TransferFailureFields)
     EXCEPT !.mintTransaction = mintTx,
            !.beneficiary = payload.crossChain.beneficiary]

\* a handler whose mint catch does not return
AfterMint_ContinueAfterFailure(threw) == IF hasCrossChain THEN "ccip" ELSE "done"

\* where the handler goes after mintWithACE: the catch returns, the transfer
\* follows a successful mint when one was asked for, the result is built otherwise
AfterMint(threw) ==
  IF threw THEN "done" ELSE IF hasCrossChain THEN "ccip" ELSE "done"

\* lines 347-383: the payload is required, parsed and validated, the network
\* looked up and the amount scaled
Trigger(inp, networkFound) ==
  /\ pc = "idle"
  /\ input' = inp
  /\ LET scaled == Scale(ParseFloat(inp.body.amount), cfg.decimals)
         fault ==
           CASE inp.kind = "empty" -> "PayloadRequired"
             [] inp.kind = "text" -> "SyntaxError"
             [] inp.kind = "json" /\ ~PayloadSchemaOk(inp.body) -> "ZodError"
             [] inp.kind = "json" /\ PayloadSchemaOk(inp.body) /\ ~networkFound
                  -> "NetworkNotFound"
             [] inp.kind = "json" /\ PayloadSchemaOk(inp.body) /\ networkFound
                  /\ ~IsIntegral(scaled) -> "RangeError"
             [] OTHER -> ""
     IN IF fault # ""
          THEN /\ outcome' = Thrown(fault)
               /\ pc' = "done"
               /\ UNCHANGED amountWei
          ELSE /\ amountWei' = BigIntOf(scaled)
               /\ pc' = "por"
               /\ UNCHANGED outcome
  /\ UNCHANGED <<cfg, reserve, mintTxHash, stages, reports, chVars, beVars>>

\* lines 392-402: STEP 1
ProofOfReserve(answer) ==
  /\ pc = "por"
  /\ stages' = Append(stages, "por")
  /\ LET data == ReserveData(cfg, answer)
         float == ReservesFloat(data, cfg.decimals)
     IN /\ reserve' = IF ~data.failed /\ IsIntegral(float)
                        THEN [known |-> TRUE, wei |-> BigIntOf(float)]
                        ELSE NoReserve
        /\ IF ValidateProofOfReserveThrows(data, cfg.decimals, amountWei)
             THEN /\ outcome' = PorFailure(parsedPayload, {"PoR FAILED"})
                  /\ pc' = "done"
             ELSE /\ pc' = "mint"
                  /\ UNCHANGED outcome
  /\ UNCHANGED <<cfg, input, amountWei, mintTxHash, reports, chVars, beVars>>

\* lines 414-440, and 476-513 when no transfer follows: STEP 2
Mint(resp) ==
  /\ pc = "mint"
  /\ stages' = Append(stages, "mint")
  /\ LET m == MintWithACE(cfg, beneficiary, mintRecipient, amountWei,
                          parsedPayload.bankReference, resp)
     IN /\ reports' = reports \o m.sent
        /\ pc' = AfterMint(m.res.threw)
        /\ IF m.res.threw
             THEN /\ outcome' = MintFailure(parsedPayload, m.res.message)
                  /\ UNCHANGED mintTxHash
             ELSE /\ mintTxHash' = m.res.txHash
                  /\ outcome' = IF hasCrossChain THEN outcome
                                ELSE Result(parsedPayload, m.res.txHash, "absent")
  /\ UNCHANGED <<cfg, input, amountWei, reserve, chVars, beVars>>

\* lines 447-475 and 487-513: STEP 3
Transfer(resp) ==
  /\ pc = "ccip"
  /\ stages' = Append(stages, "transfer")
  /\ LET ccipBeneficiary == parsedPayload.crossChain.beneficiary
         t == TransferWithACE(cfg, mintRecipient, ccipBeneficiary, amountWei,
                              parsedPayload.bankReference, resp)
     IN /\ reports' = reports \o t.sent
        /\ outcome' =
             IF t.res.threw
               THEN TransferFailure(parsedPayload, t.res.message, mintTxHash)
               ELSE Result(parsedPayload, mintTxHash, t.res.txHash)
        /\ pc' = "done"
  /\ UNCHANGED <<cfg, input, amountWei, reserve, mintTxHash, chVars, beVars>>

----------------------------------------------------------------------------
\* On chain: StablecoinERC20 and the MintingConsumerWithACE that holds its roles.
\* A call that reverts leaves the contract state as it was; lastCall records it.

\* the largest total supply the model lets the token reach
MaxSupply == 2

Consumer == "consumer"

Factory == "factory"

Stablecoin == "stablecoin"

\* address(0)
ZeroAddress == "zero"

\* the accounts createBasket is given as admin
Admins == {ZeroAddress, "admin", "mallory"}

\* the accounts that call the contracts from outside
Callers == {"admin", "forwarder", "mallory"}

\* the accounts that can hold tokens
Holders == {"alice", "mallory"}

\* the accounts a role can be granted to
RoleAccounts == {Consumer, "mallory"}

Amounts == 1..MaxSupply

\* abi.decode(report, (uint8, address, uint256, bytes32))
ChainReports ==
  { [instructionType |-> t, account |-> a, amount |-> n] :
      t \in {INSTRUCTION_MINT, INSTRUCTION_REDEEM, 3}, a \in Holders, n \in Amounts }

totalSupply == balances["alice"] + balances["mallory"]

Call(fn, sender, policy, effect, error) ==
  [fn |-> fn, sender |-> sender, policyAccepted |-> policy, effect |-> effect,
   error |-> error]

NoCall == Call("none", "none", FALSE, "none", "")

\* a mint that asks for no role
MintError_NoRoleCheck(sender, to, amount) == ""

\* StablecoinERC20.mint as called by sender: the error it reverts with, or ""
MintError(sender, to, amount) ==
  IF sender \notin isMinter THEN "NotMinter" ELSE ""

\* StablecoinERC20.burnFrom as called by sender
BurnError(sender, from, amount) ==
  IF sender \notin isBurner THEN "NotBurner"
  ELSE IF balances[from] < amount THEN "ERC20InsufficientBalance"
  ELSE ""

\* onlyOwner
OwnerError(sender) == IF sender # scOwner THEN "OwnableUnauthorizedAccount" ELSE ""

\* the role functions change one mapping entry, for the owner only
SetRole(sender, roles, account, value) ==
  IF OwnerError(sender) # "" THEN roles
  ELSE IF value THEN roles \cup {account} ELSE roles \ {account}

GrantMintRole(sender, account) ==
  /\ isMinter' = SetRole(sender, isMinter, account, TRUE)
  /\ lastCall' = Call("grantMintRole", sender, FALSE, "none", OwnerError(sender))
  /\ UNCHANGED <<scOwner, isBurner, balances, blacklist, consumerCfg, wfVars, beVars>>

RevokeMintRole(sender, account) ==
  /\ isMinter' = SetRole(sender, isMinter, account, FALSE)
  /\ lastCall' = Call("revokeMintRole", sender, FALSE, "none", OwnerError(sender))
  /\ UNCHANGED <<scOwner, isBurner, balances, blacklist, consumerCfg, wfVars, beVars>>

GrantBurnRole(sender, account) ==
  /\ isBurner' = SetRole(sender, isBurner, account, TRUE)
  /\ lastCall' = Call("grantBurnRole", sender, FALSE, "none", OwnerError(sender))
  /\ UNCHANGED <<scOwner, isMinter, balances, blacklist, consumerCfg, wfVars, beVars>>

RevokeBurnRole(sender, account) ==
  /\ isBurner' = SetRole(sender, isBurner, account, FALSE)
  /\ lastCall' = Call("revokeBurnRole", sender, FALSE, "none", OwnerError(sender))
  /\ UNCHANGED <<scOwner, isMinter, balances, blacklist, consumerCfg, wfVars, beVars>>

\* StablecoinERC20.mint called from outside
TokenMint(sender, to, amount) ==
  /\ totalSupply + amount <= MaxSupply
  /\ LET err == MintError(sender, to, amount)
     IN /\ balances' = IF err = "" THEN [balances EXCEPT ![to] = @ + amount]
                       ELSE balances
        /\ lastCall' = Call("mint", sender, FALSE,
                            IF err = "" THEN "mint" ELSE "none", err)
  /\ UNCHANGED <<scOwner, isMinter, isBurner, blacklist, consumerCfg, wfVars, beVars>>

\* StablecoinERC20.burnFrom called from outside
TokenBurnFrom(sender, from, amount) ==
  /\ LET err == BurnError(sender, from, amount)
     IN /\ balances' = IF err = "" THEN [balances EXCEPT ![from] = @ - amount]
                       ELSE balances
        /\ lastCall' = Call("burnFrom", sender, FALSE,
                            IF err = "" THEN "burn" ELSE "none", err)
  /\ UNCHANGED <<scOwner, isMinter, isBurner, blacklist, consumerCfg, wfVars, beVars>>

\* the error processMintReport reverts with for a report, or "": the token is
\* called with the consumer as msg.sender, and any revert of it is caught
ProcessError(report) ==
  CASE report.instructionType = INSTRUCTION_MINT ->
         IF MintError(Consumer, report.account, report.amount) # ""
           THEN "MintFailed" ELSE ""
    [] report.instructionType = INSTRUCTION_REDEEM ->
         IF BurnError(Consumer, report.account, report.amount) # ""
           THEN "RedeemFailed" ELSE ""
    [] OTHER -> "InvalidInstructionType"

ProcessEffect(report) ==
  IF report.instructionType = INSTRUCTION_MINT THEN "mint" ELSE "burn"

ProcessBalances(report) ==
  IF report.instructionType = INSTRUCTION_MINT
    THEN [balances EXCEPT ![report.account] = @ + report.amount]
    ELSE [balances EXCEPT ![report.account] = @ - report.amount]

\* the runPolicy modifier: the PolicyEngine runs the blacklist policy on the
\* account the extractor takes from the report, and reverts when it rejects
RunPolicyError(report) ==
  IF report.account \in blacklist THEN "PolicyRunRejected" ELSE ""

\* MintingConsumerWithACE.processMintReport, a public function, called from outside
ProcessMintReport(sender, report) ==
  /\ report.instructionType = INSTRUCTION_MINT =>
       totalSupply + report.amount <= MaxSupply
  /\ LET err == ProcessError(report)
     IN /\ balances' = IF err = "" THEN ProcessBalances(report) ELSE balances
        /\ lastCall' = Call("processMintReport", sender, FALSE,
                            IF err = "" THEN ProcessEffect(report) ELSE "none", err)
  /\ UNCHANGED <<scOwner, isMinter, isBurner, blacklist, consumerCfg, wfVars, beVars>>

\* MintingConsumerWithACE.onReport: runPolicy, then processMintReport
OnReport(sender, report) ==
  /\ report.instructionType = INSTRUCTION_MINT =>
       totalSupply + report.amount <= MaxSupply
  /\ LET err == IF RunPolicyError(report) # "" THEN RunPolicyError(report)
                ELSE ProcessError(report)
     IN /\ balances' = IF err = "" THEN ProcessBalances(report) ELSE balances
        /\ lastCall' = Call("onReport", sender, RunPolicyError(report) = "",
                            IF err = "" THEN ProcessEffect(report) ELSE "none", err)
  /\ UNCHANGED <<scOwner, isMinter, isBurner, blacklist, consumerCfg, wfVars, beVars>>

\* the policy owner edits the blacklist of the policy attached to the engine
SetBlacklist(account, listed) ==
  /\ blacklist' = IF listed THEN blacklist \cup {account} ELSE blacklist \ {account}
  /\ blacklist' # blacklist
  /\ UNCHANGED <<scOwner, isMinter, isBurner, balances, lastCall, consumerCfg, wfVars, beVars>>

\* Ownable.transferOwnership of the token: onlyOwner, and never to address(0)
TransferOwnership(sender, newOwner) ==
  /\ LET err == IF OwnerError(sender) # "" THEN OwnerError(sender)
                ELSE IF newOwner = ZeroAddress THEN "OwnableInvalidOwner"
                ELSE ""
     IN /\ scOwner' = IF err = "" THEN newOwner ELSE scOwner
        /\ lastCall' = Call("transferOwnership", sender, FALSE, "none", err)
  /\ UNCHANGED <<isMinter, isBurner, balances, blacklist, consumerCfg, wfVars, beVars>>

\* the proxy before initialize has run
NotInitialized == [initialized |-> FALSE, owner |-> "none", stablecoin |-> "none"]

\* a factory that keeps the token: step 4 is left out
CreateBasketResult_KeepsOwnership(admin) ==
  [owner |-> Factory, minters |-> {Consumer}, burners |-> {Consumer},
   consumer |-> [initialized |-> TRUE, owner |-> admin, stablecoin |-> Stablecoin]]

\* lines 42-66: the token is deployed with the factory as owner, the consumer is
\* initialised behind its proxy, the factory (the owner, so onlyOwner passes)
\* grants the consumer both roles and then transfers the ownership to admin
CreateBasketResult(admin) ==
  LET deployed == [owner |-> Factory, minters |-> {}, burners |-> {}]
      consumer == [initialized |-> TRUE, owner |-> admin, stablecoin |-> Stablecoin]
      minted == [deployed EXCEPT !.minters = @ \cup {Consumer}]
      wired == [minted EXCEPT !.burners = @ \cup {Consumer}]
  IN [owner |-> admin, minters |-> wired.minters, burners |-> wired.burners,
      consumer |-> consumer]

\* BasketFactory.createBasket(name, symbol, admin): one transaction, which
\* reverts as a whole when admin is address(0)
CreateBasket(sender, admin) ==
  /\ ~consumerCfg.initialized
  /\ IF admin = ZeroAddress
       THEN /\ lastCall' = Call("createBasket", sender, FALSE, "none", "admin=0")
            /\ UNCHANGED <<scOwner, isMinter, isBurner, balances, consumerCfg>>
       ELSE /\ scOwner' = CreateBasketResult(admin).owner
            /\ isMinter' = CreateBasketResult(admin).minters
            /\ isBurner' = CreateBasketResult(admin).burners
            /\ consumerCfg' = CreateBasketResult(admin).consumer
            /\ balances' = [h \in Holders |-> 0]
            /\ lastCall' = Call("createBasket", sender, FALSE, "none", "")
  /\ UNCHANGED <<blacklist, wfVars, beVars>>

\* before createBasket: no token, no consumer
NotDeployed ==
  /\ scOwner = "none"
  /\ isMinter = {}
  /\ isBurner = {}
  /\ balances = [h \in Holders |-> 0]
  /\ blacklist = {}
  /\ consumerCfg = NotInitialized
  /\ lastCall = NoCall

\* what BasketFactory.createBasket leaves: the consumer holds both roles and
\* admin owns the token
Deployed ==
  /\ scOwner = "admin"
  /\ isMinter = {Consumer}
  /\ isBurner = {Consumer}
  /\ blacklist = {}
  /\ consumerCfg = CreateBasketResult("admin").consumer
  /\ lastCall = NoCall

ChainStart ==
  /\ Deployed
  /\ balances = [h \in Holders |-> 0]

\* the balances a run of the workflow can find: nothing minted yet, or the
\* supply earlier runs have minted
PriorBalances ==
  { [h \in Holders |-> IF h = "alice" THEN n ELSE 0] : n \in {0, MaxSupply} }

----------------------------------------------------------------------------
\* The backend: the basket registry (routes/publish-basket.ts)

\* symbols a request can name: two ordinary ones, one that is the name of a
\* property every JavaScript object inherits, the empty one and one of 11 characters
RequestSymbols == {"DUSD", "EUSD", "toString", "", "LONGSYMBOL1"}

\* z.string().min(1).max(10)
SymbolOk(symbol) == symbol \in {"DUSD", "EUSD", "toString"}

\* the keys Object.prototype gives every object JSON.parse returns
InheritedKeys == {"toString"}

\* the symbols the registry file can hold an entry for
StorableSymbols == { y \in RequestSymbols : SymbolOk(y) }

NoBasket == [name |-> "", symbol |-> "", stablecoinAddress |-> NoAddr,
             mintingConsumerAddress |-> NoAddr]

\* the body of a publish-basket request
PublishRequests ==
  { [name |-> n, symbol |-> y, stablecoinAddress |-> a,
     mintingConsumerAddress |-> Addr("M", "checksum")] :
      n \in {"", "Dollar", "Euro"}, y \in RequestSymbols,
      a \in { Addr("S1", "checksum"), Addr("S2", "lower"), Addr("junk", "invalid") } }

\* publishBasketSchema.safeParse
PublishSchemaOk(req) ==
  /\ req.name # ""
  /\ SymbolOk(req.symbol)
  /\ IsAddress(req.stablecoinAddress)
  /\ IsAddress(req.mintingConsumerAddress)

\* a handler that never finds the symbol taken
HasBasket_Never(reg, symbol) == FALSE

\* baskets[symbol] is truthy: an own entry, or a property the object inherits
HasBasket(reg, symbol) ==
  symbol \in InheritedKeys \/ reg[symbol] # NoBasket

\* lines 68-73: the validated strings are stored as they came
BasketEntry(req) ==
  [name |-> req.name, symbol |-> req.symbol,
   stablecoinAddress |-> req.stablecoinAddress,
   mintingConsumerAddress |-> req.mintingConsumerAddress]

PublishAnswer(req, status, error) == [req |-> req, status |-> status, error |-> error]

NoPublish == PublishAnswer(NoBasket, 0, "")

\* lines 42-94: POST /publish-basket; loadBaskets answers the empty registry
\* while the file has not been written, saveBaskets writes the whole registry
Publish(req) ==
  /\ IF ~PublishSchemaOk(req)
       THEN /\ pubResp' = PublishAnswer(req, 400, "VALIDATION_ERROR")
            /\ UNCHANGED baskets
     ELSE IF HasBasket(baskets, req.symbol)
       THEN /\ pubResp' = PublishAnswer(req, 409, "BASKET_EXISTS")
            /\ UNCHANGED baskets
     ELSE /\ baskets' = [baskets EXCEPT ![req.symbol] = BasketEntry(req)]
          /\ pubResp' = PublishAnswer(req, 200, "")
  /\ UNCHANGED <<wfVars, chVars, apiVars, simVars>>

\* no baskets.json yet: loadBaskets catches the read error and returns {}
RegistryStart ==
  /\ baskets = [y \in StorableSymbols |-> NoBasket]
  /\ pubResp = NoPublish

----------------------------------------------------------------------------
\* The backend: POST /mint (middleware/auth.ts, routes/mint.ts,
\* services/cre-workflow.ts)

\* values of process.env.API_KEY and of the x-api-key header; "unset" and
\* "absent" stand for undefined
ApiKeys == {"unset", "", "k1"}

HeaderKeys == {"absent", "", "k1", "k2"}

\* !x for a string or undefined
Falsy(x) == x \in {"unset", "absent", ""}

MintRequests ==
  { [key |-> k, basket |-> b, beneficiary |-> a, amount |-> m] :
      k \in HeaderKeys, b \in {"DUSD", "EUSD", ""},
      a \in {Addr("A", "lower"), Addr("junk", "invalid")},
      m \in {"100000", "600000", "0", "-1"} }

NoRequest == [key |-> "absent", basket |-> "", beneficiary |-> NoAddr, amount |-> ""]

Answer(status, success, error, mintTx) ==
  [status |-> status, success |-> success, error |-> error, mintTransaction |-> mintTx]

NoAnswer == Answer(0, FALSE, "", "absent")

\* a middleware that lets every request with a key through
ApiKeyAuth_AnyKey(key, provided) ==
  IF Falsy(key) THEN Answer(500, FALSE, "AUTH_NOT_CONFIGURED", "absent")
  ELSE IF Falsy(provided) THEN Answer(401, FALSE, "MISSING_API_KEY", "absent")
  ELSE NoAnswer

\* apiKeyAuth: the answer it sends, or NoAnswer when it calls next()
ApiKeyAuth(key, provided) ==
  IF Falsy(key) THEN Answer(500, FALSE, "AUTH_NOT_CONFIGURED", "absent")
  ELSE IF Falsy(provided) THEN Answer(401, FALSE, "MISSING_API_KEY", "absent")
  ELSE IF provided # key THEN Answer(403, FALSE, "INVALID_API_KEY", "absent")
  ELSE NoAnswer

\* /^\d+(\.\d+)?$/ on the amount strings
AmountPatternOk(amount) == amount \in {"100000", "500000", "600000", "0.05", "0"}

\* mintRequestSchema.safeParse
MintRequestSchemaOk(req) ==
  /\ req.basket # ""
  /\ IsAddress(req.beneficiary)
  /\ AmountPatternOk(req.amount)

\* '0x' + the 32-byte buffer holding the transaction id, as hex: 66 characters
GeneratedBankReference == Repeat(1, 2 + 2 * Bytes32Len)

\* buildCREPayload, as the JSON document handed to the simulation
BuildCREPayload(req) ==
  [kind |-> "json",
   body |-> Body("BSKT-1", req.beneficiary, req.amount, GeneratedBankReference,
                 NoCrossChain, {})]

\* the front of routes/mint.ts up to the await: validation and basket lookup
MintHandlerAnswer(req) ==
  IF ~MintRequestSchemaOk(req) THEN Answer(400, FALSE, "VALIDATION_ERROR", "absent")
  ELSE IF ~HasBasket(baskets, req.basket)
    THEN Answer(400, FALSE, "BASKET_NOT_FOUND", "absent")
  ELSE NoAnswer

\* a request arrives: apiKeyAuth, then the handler up to triggerCREWorkflow
Receive(req) ==
  /\ apiPc = "idle"
  /\ apiReq' = req
  /\ LET auth == ApiKeyAuth(apiKey, req.key)
     IN IF auth # NoAnswer
          THEN /\ apiResp' = auth
               /\ apiPc' = "done"
               /\ UNCHANGED handled
          ELSE /\ handled' = TRUE
               /\ apiResp' = MintHandlerAnswer(req)
               /\ apiPc' = IF MintHandlerAnswer(req) # NoAnswer THEN "done" ELSE "sim"
  /\ UNCHANGED <<apiKey, regVars, simVars, wfVars, chVars>>

\* the workflow returned the result object of lines 487-513
Completed ==
  outcome.how = "returned" /\ outcome.error = "" /\ "reportDelivered" \in outcome.fields

\* the 32-byte hex strings in the stdout of the simulation, in order: the
\* bankReference in the logged payload (lines 355 and 362 of main.ts), the first
\* word of the encoded mint report (199), the mint transaction hash (252, 254,
\* and the result at 511)
OutputHexes ==
  (IF outcome.error \in {"PayloadRequired", "SyntaxError"} THEN <<>>
   ELSE IF outcome.error = "ZodError" THEN <<"0xBankReference">>
   ELSE <<"0xBankReference", "0xBankReference">>)
  \o (IF reports # <<>> THEN <<"0xInstructionWord">> ELSE <<>>)
  \o (IF Completed
        THEN <<outcome.mintTransaction, outcome.mintTransaction, outcome.mintTransaction>>
        ELSE <<>>)

\* which of the texts parseSimulationOutput searches for are in the stdout;
\* echo: the CLI prints the value the workflow returned or the error it threw
OutputMarkers(echo) ==
  (IF Completed THEN {"reportDelivered", "Report delivered"} ELSE {})
  \cup (IF outcome.error = "POR_INSUFFICIENT_RESERVES"
          /\ reserve.known /\ reserve.wei < amountWei THEN {"FAILED"} ELSE {})
  \cup (IF echo /\ outcome.error = "MINT_FAILED" THEN {"FAILED"} ELSE {})
  \cup (IF echo /\ outcome.how = "thrown" THEN {"Error"} ELSE {})

\* a parser that takes the last hash of the output
TxHashMatch_Last(hexes) ==
  IF hexes = <<>> THEN "absent" ELSE hexes[Len(hexes)]

\* output.match(/0x[a-fA-F0-9]{64}/): the first match, or none
TxHashMatch(hexes) ==
  IF hexes = <<>> THEN "absent" ELSE hexes[1]

\* parseSimulationOutput
ParseSimulationOutput(hexes, markers) ==
  LET txHash == TxHashMatch(hexes)
      isSuccess ==
        \/ markers \cap {"reportDelivered", "Report delivered", "MintExecuted"} # {}
        \/ txHash # "absent" /\ "FAILED" \notin markers /\ "Error" \notin markers
  IN IF isSuccess /\ txHash # "absent"
       THEN Answer(200, TRUE, "", txHash)
       ELSE Answer(400, FALSE, "CRE_SIMULATION_FAILED", "absent")

\* triggerCREWorkflow and the end of the handler: the process was spawned and
\* exited with code 0, or not
Respond(exitedZero, echo) ==
  /\ apiPc = "sim"
  /\ pc = "done"
  /\ outcome.how = "returned" => exitedZero
  /\ apiResp' = IF exitedZero
                  THEN ParseSimulationOutput(OutputHexes, OutputMarkers(echo))
                  ELSE Answer(400, FALSE, "CRE_SIMULATION_ERROR", "absent")
  /\ apiPc' = "done"
  /\ UNCHANGED <<apiKey, apiReq, handled, regVars, simVars, wfVars, chVars>>

\* no request yet
ApiStart ==
  /\ apiKey = "k1"
  /\ apiReq = NoRequest
  /\ apiPc = "idle"
  /\ handled = FALSE
  /\ apiResp = NoAnswer

----------------------------------------------------------------------------
\* The backend: concurrent simulations (services/cre-workflow.ts, lines 78-150)

\* the requests in flight
Requests == {"r1", "r2"}

\* the last millisecond of the clock
MaxClock == 2

Paths == 0..MaxClock

NoFile == "none"

Unread == "unread"

NotStarted == [pc |-> "idle", path |-> 0, read |-> Unread]

\* `temp-payload-${Date.now()}.json`
TempPayloadPath(r) == clock

\* lines 84-122: write the payload file, spawn the CLI with its path
StartSimulation(r) ==
  /\ procs[r].pc = "idle"
  /\ LET tempPayloadPath == TempPayloadPath(r)
     IN /\ files' = [files EXCEPT ![tempPayloadPath] = r]
        /\ procs' = [procs EXCEPT ![r] = [pc |-> "spawned", path |-> tempPayloadPath,
                                          read |-> Unread]]
  /\ UNCHANGED <<clock, regVars, apiVars, wfVars, chVars>>

\* the spawned CLI opens the file named by --http-payload
ReadPayload(r) ==
  /\ procs[r].pc = "spawned"
  /\ procs' = [procs EXCEPT ![r].pc = "running", ![r].read = files[procs[r].path]]
  /\ UNCHANGED <<clock, files, regVars, apiVars, wfVars, chVars>>

\* lines 125-138: the process closed; the temp file is removed
OnClose(r) ==
  /\ procs[r].pc = "running"
  /\ files' = [files EXCEPT ![procs[r].path] = NoFile]
  /\ procs' = [procs EXCEPT ![r].pc = "done"]
  /\ UNCHANGED <<clock, regVars, apiVars, wfVars, chVars>>

\* lines 140-148: the process could not be spawned; the temp file is removed
OnError(r) ==
  /\ procs[r].pc = "spawned"
  /\ files' = [files EXCEPT ![procs[r].path] = NoFile]
  /\ procs' = [procs EXCEPT ![r].pc = "done"]
  /\ UNCHANGED <<clock, regVars, apiVars, wfVars, chVars>>

\* a millisecond passes
Tick ==
  /\ clock < MaxClock
  /\ clock' = clock + 1
  /\ UNCHANGED <<files, procs, regVars, apiVars, wfVars, chVars>>

\* no simulation yet
SimStart ==
  /\ clock = 0
  /\ files = [p \in Paths |-> NoFile]
  /\ procs = [r \in Requests |-> NotStarted]

----------------------------------------------------------------------------
\* Specifications

WorkflowStart ==
  /\ pc = "idle"
  /\ input = [kind |-> "empty", body |-> Body("", NoAddr, "", <<>>, NoCrossChain, {})]
  /\ amountWei = 0
  /\ reserve = NoReserve
  /\ mintTxHash = "absent"
  /\ outcome = NoOutcome
  /\ stages = <<>>
  /\ reports = <<>>

\* one run of the workflow, under either configuration
Init ==
  /\ cfg \in Configs
  /\ WorkflowStart
  /\ Deployed
  /\ balances \in PriorBalances
  /\ RegistryStart
  /\ ApiStart
  /\ SimStart

\* each stage is entered through its guard, then fed one answer of its collaborator
Next ==
  \/ pc = "idle" /\ \E inp \in Inputs, networkFound \in BOOLEAN : Trigger(inp, networkFound)
  \/ pc = "por" /\ \E answer \in PorAnswers : ProofOfReserve(answer)
  \/ pc = "mint" /\ \E resp \in WriteReplies : Mint(resp)
  \/ pc = "ccip" /\ \E resp \in WriteReplies : Transfer(resp)

Spec == Init /\ [][Next]_vars

\* any sequence of external calls to the deployed contracts
\* the factory is there, no basket yet
ChainInit ==
  /\ cfg = Config(TRUE)
  /\ WorkflowStart
  /\ NotDeployed
  /\ RegistryStart
  /\ ApiStart
  /\ SimStart

\* createBasket, then any call to the contracts it deployed
ChainNext ==
  \/ \E c \in Callers, a \in Admins : CreateBasket(c, a)
  \/ consumerCfg.initialized /\ \E c \in Callers, a \in RoleAccounts : GrantMintRole(c, a)
  \/ consumerCfg.initialized /\ \E c \in Callers, a \in RoleAccounts : RevokeMintRole(c, a)
  \/ consumerCfg.initialized /\ \E c \in Callers, a \in RoleAccounts : GrantBurnRole(c, a)
  \/ consumerCfg.initialized /\ \E c \in Callers, a \in RoleAccounts : RevokeBurnRole(c, a)
  \/ consumerCfg.initialized /\ \E c \in Callers, a \in Admins : TransferOwnership(c, a)
  \/ consumerCfg.initialized /\ \E c \in Callers, h \in Holders, n \in Amounts : TokenMint(c, h, n)
  \/ consumerCfg.initialized /\ \E c \in Callers, h \in Holders, n \in Amounts : TokenBurnFrom(c, h, n)
  \/ consumerCfg.initialized /\ \E c \in Callers, r \in ChainReports : ProcessMintReport(c, r)
  \/ consumerCfg.initialized /\ \E c \in Callers, r \in ChainReports : OnReport(c, r)
  \/ consumerCfg.initialized /\ \E h \in Holders, l \in BOOLEAN : SetBlacklist(h, l)

ChainSpec == ChainInit /\ [][ChainNext]_vars

\* any sequence of publish-basket requests
RegistryInit ==
  /\ cfg = Config(TRUE)
  /\ WorkflowStart
  /\ NotDeployed
  /\ RegistryStart
  /\ ApiStart
  /\ SimStart

RegistryNext == \E req \in PublishRequests : Publish(req)

RegistrySpec == RegistryInit /\ [][RegistryNext]_vars

\* one request to POST /mint, with the basket DUSD published
ApiInit ==
  /\ cfg \in Configs
  /\ WorkflowStart
  /\ Deployed
  /\ balances = [h \in Holders |-> 0]
  /\ baskets =
       [y \in StorableSymbols |->
          IF y = "DUSD"
            THEN [name |-> "Dollar", symbol |-> "DUSD",
                  stablecoinAddress |-> Addr("S1", "checksum"),
                  mintingConsumerAddress |-> Addr("M", "checksum")]
            ELSE NoBasket]
  /\ pubResp = NoPublish
  /\ apiKey \in ApiKeys
  /\ apiReq = NoRequest
  /\ apiPc = "idle"
  /\ handled = FALSE
  /\ apiResp = NoAnswer
  /\ SimStart

ApiNext ==
  \/ \E req \in MintRequests : Receive(req)
  \/ apiPc = "sim" /\ pc = "idle" /\
       \E networkFound \in BOOLEAN : Trigger(BuildCREPayload(apiReq), networkFound)
  \/ pc = "por" /\ \E answer \in PorAnswers : ProofOfReserve(answer)
  \/ pc = "mint" /\ \E resp \in WriteReplies : Mint(resp)
  \/ \E exitedZero, echo \in BOOLEAN : Respond(exitedZero, echo)

ApiSpec == ApiInit /\ [][ApiNext]_vars

\* the requests of Requests, each running runCRESimulation once
SimInit ==
  /\ cfg = Config(TRUE)
  /\ WorkflowStart
  /\ Deployed
  /\ balances = [h \in Holders |-> 0]
  /\ RegistryStart
  /\ ApiStart
  /\ SimStart

SimNext ==
  \/ Tick
  \/ \E r \in Requests :
       \/ StartSimulation(r)
       \/ ReadPayload(r)
       \/ OnClose(r)
       \/ OnError(r)

SimSpec == SimInit /\ [][SimNext]_vars

----------------------------------------------------------------------------
\* Properties of the workflow run

Range(seq) == { seq[i] : i \in 1..Len(seq) }

Count(seq, x) == Cardinality({ i \in 1..Len(seq) : seq[i] = x })

ReportsOf(kind) == { i \in 1..Len(reports) : reports[i].kind = kind }

Started == pc # "idle"

Terminated == outcome.how # "none"

\* the crossChain record of the instruction asks for a transfer
CrossChainEnabled ==
  input.body.crossChain.present /\ input.body.crossChain.enabled

\* not valid JSON, or JSON that fails payloadSchema
Malformed ==
  \/ input.kind = "text"
  \/ input.kind = "json" /\ ~PayloadSchemaOk(input.body)

\* C1: whenever the scaled reserve value the validator compared is strictly less
\* than the scaled mint amount, the run has ended with POR_INSUFFICIENT_RESERVES,
\* neither mintWithACE nor transferWithACE was invoked and no report was submitted.
C1_ReserveRejectedBeforeMint ==
  (reserve.known /\ reserve.wei < amountWei) =>
    /\ outcome.how = "returned"
    /\ outcome.error = "POR_INSUFFICIENT_RESERVES"
    /\ "success" \in outcome.fields
    /\ stages = <<"por">>
    /\ reports = <<>>

C1_Witness ==
  /\ reserve.known /\ reserve.wei < amountWei
  /\ amountWei > 0
  /\ pc = "done"

\* C3 (as claimed): with crossChain.enabled, the address carried in the mint
\* report is the instruction's beneficiary account and not the custody identity.
C3_MintReportChecksBeneficiary ==
  \A i \in ReportsOf("mint") :
    CrossChainEnabled =>
      /\ reports[i].account.acct = input.body.beneficiary.acct
      /\ reports[i].account.acct # cfg.ccipConsumerAddress.acct

C5_MalformedReturnsOutcome ==
  (Malformed /\ Started) =>
    /\ outcome.how = "returned"
    /\ stages = <<>>
    /\ reports = <<>>

\* C6: the stages run in the order reserve check, mint, transfer, each at the end
\* of the sequence so far: the mint stage starts only after the reserve check has
\* passed, the transfer stage only after the mint stage has returned a reference,
\* a report is submitted only inside the mint or the transfer stage, and once an
\* outcome is there no stage is invoked, no report submitted and the outcome kept.
C6_StageOrderStep ==
  /\ Terminated => UNCHANGED <<stages, reports, outcome>>
  /\ stages' # stages =>
       \/ stages = <<>> /\ stages' = <<"por">>
       \/ /\ stages = <<"por">> /\ stages' = <<"por", "mint">>
          /\ reserve.known /\ reserve.wei >= amountWei
       \/ /\ stages = <<"por", "mint">> /\ stages' = <<"por", "mint", "transfer">>
          /\ mintTxHash # "absent"
  /\ reports' # reports =>
       /\ stages' # stages
       /\ stages'[Len(stages')] \in {"mint", "transfer"}

\* C6: every step of a run keeps the stage order stated above.
C6_StrictStageOrder == [][C6_StageOrderStep]_vars

C6_Witness ==
  /\ stages = <<"por", "mint", "transfer">>
  /\ Completed
  /\ Len(reports) = 2

\* C7: in one run each of the three stages is invoked at most once, and the mint
\* stage and the transfer stage each submit at most one report.
C7_NoRetries ==
  /\ \A st \in {"por", "mint", "transfer"} : Count(stages, st) <= 1
  /\ Cardinality(ReportsOf("mint")) <= Count(stages, "mint")
  /\ Cardinality(ReportsOf("ccip")) <= Count(stages, "transfer")
  /\ Len(reports) = Cardinality(ReportsOf("mint")) + Cardinality(ReportsOf("ccip"))

C7_Witness ==
  /\ Count(stages, "mint") = 1
  /\ Cardinality(ReportsOf("mint")) = 1
  /\ outcome.error = "MINT_FAILED"

\* C8: when the crossChain record is absent or not enabled, the transfer stage is
\* never invoked, no CCIP report is submitted and the outcome has none of the
\* fields ccipTransaction, etherscanCCIP, ccipExplorer, however the mint ended.
C8_NoTransferWithoutCrossChain ==
  (Started /\ ~CrossChainEnabled) =>
    /\ "transfer" \notin Range(stages)
    /\ ReportsOf("ccip") = {}
    /\ outcome.fields \cap CcipFields = {}
    /\ outcome.ccipTransaction = "absent"

C8_Witness ==
  /\ input.body.crossChain.present /\ ~input.body.crossChain.enabled
  /\ Completed

\* C9: the beneficiary address in every CCIP report is the address of the
\* instruction's crossChain.beneficiary.
C9_TransferChecksDestination ==
  \A i \in ReportsOf("ccip") :
    reports[i].beneficiary.acct = input.body.crossChain.beneficiary.acct

C9_Witness ==
  \E i \in ReportsOf("ccip") :
    /\ input.body.crossChain.beneficiary = Addr("A", "lower")
    /\ reports[i].beneficiary = Addr("A", "checksum")

\* C10: the account written into the mint report is the configured
\* ccipConsumerAddress when crossChain.enabled is true, and the instruction's
\* beneficiary account when crossChain is absent or not enabled.
C10_MintRecipient ==
  \A i \in ReportsOf("mint") :
    reports[i].account.acct =
      IF CrossChainEnabled THEN cfg.ccipConsumerAddress.acct
      ELSE input.body.beneficiary.acct

C10_Witness ==
  \E i \in ReportsOf("mint") :
    /\ CrossChainEnabled
    /\ input.body.beneficiary.acct = "A"
    /\ reports[i].account = Addr("C", "checksum")

\* C11: the sender in every CCIP report is the account the mint report of the
\* same run minted to, which is the configured ccipConsumerAddress; it is the
\* instruction's beneficiary account only if that account is the custody account.
C11_SenderIsMintRecipient ==
  \A i \in ReportsOf("ccip") :
    /\ \E j \in ReportsOf("mint") :
         j < i /\ reports[i].sender.acct = reports[j].account.acct
    /\ reports[i].sender.acct = cfg.ccipConsumerAddress.acct
    /\ input.body.beneficiary.acct # cfg.ccipConsumerAddress.acct =>
         reports[i].sender.acct # input.body.beneficiary.acct

C11_Witness ==
  \E i \in ReportsOf("ccip") :
    /\ input.body.beneficiary.acct = "A"
    /\ reports[1].account = Addr("C", "checksum")
    /\ reports[i].sender = Addr("C", "checksum")

\* the class the claims give a reply: the policy-rejection signal in errorMessage
\* first, then the status
ClaimedClass(resp) ==
  IF "PolicyRunRejected" \in resp.errorMessage \/ "blacklisted" \in resp.errorMessage
    THEN "policy-rejected"
  ELSE IF resp.txStatus # "SUCCESS" THEN "transport-failed"
  ELSE "success"

\* the class a stage reports to the orchestrator: it returns a reference, or
\* throws an error whose message the orchestrator searches for 'ACE REJECTED'
StageClass(res) ==
  IF ~res.threw THEN "success"
  ELSE IF "ACE REJECTED" \in res.message THEN "policy-rejected"
  ELSE "transport-failed"

C12_Step ==
  \A resp \in WriteReplies :
    (~resp.threw /\ Mint(resp) /\ reports' # reports) =>
      CASE ClaimedClass(resp) = "policy-rejected" ->
             /\ outcome'.how = "returned"
             /\ outcome'.error = "ACE_POLICY_REJECTED"
             /\ pc' = "done"
        [] ClaimedClass(resp) = "transport-failed" ->
             /\ outcome'.how = "returned"
             /\ outcome'.error = "MINT_FAILED"
             /\ pc' = "done"
        [] ClaimedClass(resp) = "success" ->
             /\ outcome'.error = ""
             /\ mintTxHash' # "absent"
             /\ pc' = "ccip" \/ "reportDelivered" \in outcome'.fields

\* C12 (as claimed): every reply to the mint report falls into exactly one of the
\* three classes (signal in errorMessage; no signal and no success; no signal and
\* success) and the run ends with ACE_POLICY_REJECTED for the first, with
\* MINT_FAILED for the second, and goes on with a mint reference for the third.
C12_MintClassification == [][C12_Step]_vars

C13_Step ==
  \A resp \in WriteReplies :
    (~resp.threw /\ Transfer(resp) /\ reports' # reports) =>
      LET mintClass == StageClass(MintOutcome(resp))
      IN /\ outcome'.error = "ACE_POLICY_REJECTED_CCIP" <=> mintClass = "policy-rejected"
         /\ outcome'.error = "CCIP_FAILED" <=> mintClass = "transport-failed"
         /\ "reportDelivered" \in outcome'.fields <=> mintClass = "success"

\* C13 (as claimed): for every reply (txStatus, errorMessage) the transfer stage
\* ends in the class (policy-rejected, transport-failed, success) in which the
\* mint stage ends for the same reply.
C13_SameClassification == [][C13_Step]_vars

\* C14 (as claimed): the destination chain encoded in every CCIP report is the
\* destinationChain of the instruction's crossChain record.
C14_ReportNamesRequestedChain ==
  \A i \in ReportsOf("ccip") :
    reports[i].destinationChainSelector = input.body.crossChain.destinationChain

\* C15: a run submits nothing but at most one mint report, of instruction type
\* INSTRUCTION_MINT, followed by at most one CCIP report: after a successful mint
\* no redeem report and no second mint report follows, whatever the transfer
\* stage returned.
C15_NoCompensation ==
  /\ Len(reports) <= 2
  /\ \A i \in 1..Len(reports) :
       reports[i].kind = IF i = 1 THEN "mint" ELSE "ccip"
  /\ \A i \in ReportsOf("mint") :
       /\ reports[i].instructionType = INSTRUCTION_MINT
       /\ reports[i].instructionType # INSTRUCTION_REDEEM
  /\ Len(reports) = 2 => mintTxHash # "absent"

C15_Witness ==
  /\ stages = <<"por", "mint", "transfer">>
  /\ mintTxHash = "0xaa"
  /\ outcome.error = "CCIP_FAILED"
  /\ Len(reports) = 2

\* C16: once a stage has been invoked, a run that has ended has ended with a
\* returned object, a failure object with success and error or the result
\* object, never with a thrown error; this includes the failures a stage
\* raises before it submits its report.
C16_StageFailuresReturned ==
  (stages # <<>> /\ Terminated) =>
    /\ outcome.how = "returned"
    /\ \/ Completed
       \/ /\ "success" \in outcome.fields
          /\ outcome.error \in
               {"POR_INSUFFICIENT_RESERVES", "ACE_POLICY_REJECTED", "MINT_FAILED",
                "ACE_POLICY_REJECTED_CCIP", "CCIP_FAILED"}

C16_Witness ==
  /\ stages = <<"por", "mint">>
  /\ reports = <<>>
  /\ outcome.how = "returned"
  /\ outcome.error = "MINT_FAILED"
  /\ "InvalidAddress" \in outcome.message

\* C17: every returned outcome has the field transactionId, with the
\* transactionId of the instruction of the run.
C17_OutcomeCarriesTransactionId ==
  outcome.how = "returned" =>
    /\ "transactionId" \in outcome.fields
    /\ outcome.transactionId = input.body.transactionId
    /\ outcome.transactionId \in TransactionIds

C17_Witness ==
  /\ outcome.error = "POR_INSUFFICIENT_RESERVES"
  /\ input.body.transactionId = "BSKT-2"
  /\ outcome.transactionId = "BSKT-2"

C19_RejectionCarriesDetail ==
  outcome.error = "POR_INSUFFICIENT_RESERVES" =>
    {"available", "requested", "asOf"} \subseteq outcome.fields

\* the amount of a schema-valid instruction parses to a number that is not above 0
AmountNotPositive ==
  /\ input.kind = "json" /\ PayloadSchemaOk(input.body)
  /\ ~ParseFloat(input.body.amount).nan
  /\ ParseFloat(input.body.amount).centi <= 0

\* C20 (as claimed): an instruction whose amount is zero or negative ends the
\* run before any stage is invoked, and every mint report carries an amount
\* greater than zero.
C20_NonPositiveAmountRejected ==
  /\ (Started /\ AmountNotPositive) => (Terminated /\ stages = <<>>)
  /\ \A i \in ReportsOf("mint") : reports[i].amount > 0

\* C21: a JSON instruction whose crossChain record is there with enabled = true
\* but without destinationChain or without beneficiary ends the run with the
\* schema's validation error before any stage: no stage is invoked and no report
\* submitted, so it is never run as a mint without transfer.
C21_IncompleteCrossChainRejected ==
  ( /\ Started /\ input.kind = "json"
    /\ input.body.crossChain.present /\ input.body.crossChain.enabled
    /\ input.body.missing \cap
         {"crossChain.destinationChain", "crossChain.beneficiary"} # {} ) =>
    /\ Terminated
    /\ outcome.error = "ZodError"
    /\ stages = <<>>
    /\ reports = <<>>

C21_Witness ==
  /\ input.kind = "json"
  /\ input.body.crossChain.enabled
  /\ input.body.missing = {"crossChain.beneficiary"}
  /\ pc = "done"

\* C27 (as claimed): for every bankReference the mint stage encodes, the bytes
\* stringToBytes32 produces are exactly 32, multi-byte characters included.
C27_BankRefIs32Bytes ==
  ("mint" \in Range(stages) /\ IsAddress(beneficiary) /\ IsAddress(mintRecipient)) =>
    StringToBytes32Size(input.body.bankReference) = Bytes32Len

\* C28 (as claimed): the run ends with POR_INSUFFICIENT_RESERVES only when the
\* validator had a reserve value and that value, scaled, is less than the mint
\* amount.
C28_RejectedOnlyForLowReserves ==
  outcome.error = "POR_INSUFFICIENT_RESERVES" =>
    (reserve.known /\ reserve.wei < amountWei)

----------------------------------------------------------------------------
\* Properties of the deployed contracts

\* C2 (as claimed): every mint or burn the consumer performs happens in a call
\* whose report passed the PolicyEngine's policy run.
C2_PolicyRunBeforeMintOrBurn ==
  (lastCall.fn \in {"onReport", "processMintReport"} /\ lastCall.effect # "none") =>
    lastCall.policyAccepted

C24_Step ==
  \A c \in Callers, a \in Admins :
    CreateBasket(c, a) =>
      IF a = ZeroAddress
        THEN /\ lastCall'.error = "admin=0"
             /\ UNCHANGED <<scOwner, isMinter, isBurner, balances, consumerCfg>>
             /\ ~consumerCfg'.initialized
        ELSE /\ lastCall'.error = ""
             /\ isMinter' = {Consumer}
             /\ isBurner' = {Consumer}
             /\ scOwner' = a
             /\ Factory \notin {scOwner'} \cup isMinter' \cup isBurner'
             /\ consumerCfg' =
                  [initialized |-> TRUE, owner |-> a, stablecoin |-> Stablecoin]

\* C24: a createBasket(name, symbol, admin) that succeeds leaves the consumer,
\* and nobody else, with the mint role and the burn role, admin as the owner of
\* the token, the factory with neither ownership nor role, and the consumer
\* initialised with that token and with admin as its owner; with admin =
\* address(0) the call reverts and nothing is deployed.
C24_CreateBasketWiring == [][C24_Step]_vars

C24_Witness ==
  /\ lastCall.fn = "createBasket" /\ lastCall.error = ""
  /\ scOwner = "mallory"
  /\ isMinter = {Consumer} /\ isBurner = {Consumer}
  /\ consumerCfg.owner = "mallory"

RoleFunctions == {"grantMintRole", "revokeMintRole", "grantBurnRole", "revokeBurnRole"}

C25_Step ==
  /\ (lastCall'.fn = "mint" /\ <<lastCall, balances>>' # <<lastCall, balances>>) =>
       IF lastCall'.sender \in isMinter
         THEN lastCall'.error = "" /\ totalSupply' > totalSupply
         ELSE /\ lastCall'.error = "NotMinter"
              /\ UNCHANGED <<balances, isMinter, isBurner, scOwner>>
  /\ (lastCall'.fn = "burnFrom" /\ <<lastCall, balances>>' # <<lastCall, balances>>) =>
       IF lastCall'.sender \in isBurner
         THEN totalSupply' < totalSupply <=> lastCall'.error = ""
         ELSE /\ lastCall'.error = "NotBurner"
              /\ UNCHANGED <<balances, isMinter, isBurner, scOwner>>
  /\ (consumerCfg.initialized /\ balances' # balances) =>
       /\ lastCall'.effect \in {"mint", "burn"}
       /\ lastCall'.effect = "mint" =>
            (IF lastCall'.fn = "mint" THEN lastCall'.sender ELSE Consumer) \in isMinter
       /\ lastCall'.effect = "burn" =>
            (IF lastCall'.fn = "burnFrom" THEN lastCall'.sender ELSE Consumer) \in isBurner
  /\ (consumerCfg.initialized /\ (isMinter' # isMinter \/ isBurner' # isBurner)) =>
       /\ lastCall'.fn \in RoleFunctions
       /\ lastCall'.sender = scOwner
       /\ lastCall'.error = ""

\* C25: in every call to the deployed token, mint changes a balance only for a
\* caller that holds the mint role at that moment and burnFrom only for one that
\* holds the burn role; without the role the call reverts with NotMinter or
\* NotBurner and changes nothing; and isMinter and isBurner change only in a
\* role function called by the owner of that moment.
C25_RoleGatedMintBurn == [][C25_Step]_vars

C25_Witness ==
  /\ lastCall.fn = "mint" /\ lastCall.sender = "mallory"
  /\ lastCall.error = "NotMinter"
  /\ balances["alice"] > 0
  /\ scOwner = "mallory"

----------------------------------------------------------------------------
\* Properties of the backend

C30_Step ==
  /\ \A y \in StorableSymbols :
       /\ baskets[y] # NoBasket => baskets'[y] = baskets[y]
       /\ baskets'[y] # baskets[y] =>
            /\ pubResp'.status = 200
            /\ pubResp'.req.symbol = y
            /\ baskets'[y] = BasketEntry(pubResp'.req)
       /\ baskets'[y] # NoBasket => baskets'[y].symbol = y
  /\ \A req \in PublishRequests :
       Publish(req) =>
         /\ (PublishSchemaOk(req) /\ baskets[req.symbol] # NoBasket) =>
              (pubResp'.status = 409 /\ pubResp'.error = "BASKET_EXISTS")
         /\ ~PublishSchemaOk(req) => pubResp'.status = 400
         /\ pubResp'.status \in {400, 409} => UNCHANGED baskets

Answered == apiPc = "done"

\* C23: the /mint handler is entered only when API_KEY is configured and the
\* x-api-key header equals it; with no key configured the answer is 500
\* AUTH_NOT_CONFIGURED whatever the header, with a key configured an absent or
\* empty header is answered 401 MISSING_API_KEY and a different key 403
\* INVALID_API_KEY.
C23_KeyGuardsMintHandler ==
  /\ handled => (~Falsy(apiKey) /\ apiReq.key = apiKey)
  /\ (Answered /\ Falsy(apiKey)) =>
       (~handled /\ apiResp.status = 500 /\ apiResp.error = "AUTH_NOT_CONFIGURED")
  /\ (Answered /\ ~Falsy(apiKey) /\ apiReq.key \in {"absent", ""}) =>
       (~handled /\ apiResp.status = 401 /\ apiResp.error = "MISSING_API_KEY")
  /\ (Answered /\ ~Falsy(apiKey) /\ apiReq.key \notin {"absent", "", apiKey}) =>
       (~handled /\ apiResp.status = 403 /\ apiResp.error = "INVALID_API_KEY")

C23_Witness ==
  /\ handled /\ Answered
  /\ apiReq.key = "k1"
  /\ apiResp.success

\* C22: an answered request carries a 2xx status with success: true only when
\* the workflow ended Completed, and a 4xx status whenever the body was invalid,
\* the basket unknown, or the workflow returned a reserve rejection, a policy
\* rejection or a mint failure.
C22_SuccessOnlyWhenCompleted ==
  Answered =>
    /\ (apiResp.status \in 200..299 /\ apiResp.success) => Completed
    /\ (handled /\ (\/ ~MintRequestSchemaOk(apiReq)
                    \/ ~HasBasket(baskets, apiReq.basket)
                    \/ outcome.error \in {"POR_INSUFFICIENT_RESERVES",
                                          "ACE_POLICY_REJECTED", "MINT_FAILED"})) =>
         apiResp.status \in 400..499

\* C29: an answer with success: true names as mintTransaction the hash the mint
\* stage of the workflow returned.
C29_MintTransactionIsMintHash ==
  (Answered /\ apiResp.success) =>
    (Completed /\ apiResp.mintTransaction = outcome.mintTransaction)

\* C26: every simulation that has been spawned and has not yet opened its
\* payload finds, under its path, the file holding its own request, and every
\* simulation that has opened its payload has read its own request: no other
\* request's write or cleanup touches the file in between.
C26_OwnPayloadFile ==
  \A r \in Requests :
    /\ procs[r].pc = "spawned" => files[procs[r].path] = r
    /\ procs[r].pc \in {"running", "done"} /\ procs[r].read # Unread =>
         procs[r].read = r

====
